---- MODULE Spec2Model ----
(***************************************************************************)
(* Model of main.py: the acquisition of the hourly air and weather data,   *)
(* the per-hour classification against the threshold tables, the merge of  *)
(* consecutive same-title hours into intervals for the two calendars, the  *)
(* duration filter and the writing of the two calendar files.              *)
(*                                                                         *)
(* Timestamps are whole hours counted from midnight of day 0 (the zone     *)
(* Asia/Shanghai has no daylight saving, so one hour is always one unit);  *)
(* the hour of day is the timestamp modulo 24.  Python's None is the empty *)
(* tuple <<>>: match_act is <<>> or the pair <<title, desc>>, an open      *)
(* interval is <<>> or <<dict>>.  Formatted strings are the tuple or       *)
(* record of the values they embed.  Titles are ASCII glosses of the       *)
(* source's titles.                                                        *)
(***************************************************************************)
EXTENDS Integers, Sequences, FiniteSets, TLC

VARIABLES pc, acquisition, columns, df, index,
          match_act, match_warn, idx, is_perfect,
          curr_active, curr_warning, events_active, events_warning,
          cal_active, cal_warning, files

vars == <<pc, acquisition, columns, df, index, match_act, match_warn, idx, is_perfect,
          curr_active, curr_warning, events_active, events_warning,
          cal_active, cal_warning, files>>

---------------------------------------------------------------------------
(* Configuration *)

BLOCK_START_HOUR == 0
BLOCK_END_HOUR == 5
MIN_DURATION_HOURS == 2

PERFECT_CONDITION ==
    [temp_min |-> 10, temp_max |-> 28, cloud_max |-> 50, visibility_min |-> 10000]

\* "PureAir" is the level-1 title, "SuitableOuting" the level-2 title.
LEVELS_ACTIVE ==
    << <<35, 50, 40, 100, "PureAir", "PureAirDesc">>,
       <<75, 100, 80, 160, "SuitableOuting", "SuitableOutingDesc">> >>

LEVELS_WARNING ==
    << <<115, 150, 120, 200, "NeedWindow", "NeedWindowDesc">> >>

\* The upgraded title of line 124.
PERFECT_TITLE == "PerfectOutdoor"

---------------------------------------------------------------------------
(* Bounds of the model *)

\* Timestamps of the rows lie in FirstTime .. FirstTime + Horizon - 1.
FirstTime == 21
Horizon == 9
\* Longest data frame handed to generate_calendars.
MaxRows == 4

---------------------------------------------------------------------------
(* Rows of the data frame *)

Hour(t) == t % 24

\* Line 95: vals_air, and line 96: vals_weather, of a row.
ValsAir(row) == <<row.pm2_5, row.pm10, row.nitrogen_dioxide, row.ozone>>
ValsWeather(row) == <<row.temperature_2m, row.cloud_cover, row.visibility>>

MkRow(t, air, weather) ==
    [time |-> t, pm2_5 |-> air[1], pm10 |-> air[2], nitrogen_dioxide |-> air[3],
     ozone |-> air[4], temperature_2m |-> weather[1], cloud_cover |-> weather[2],
     visibility |-> weather[3]]

\* Line 99: the night block.
IsSuppressed(current_time) ==
    BLOCK_START_HOUR <= Hour(current_time) /\ Hour(current_time) < BLOCK_END_HOUR

---------------------------------------------------------------------------
(* Classification of one hour *)

\* Line 79: the value pd.to_numeric(errors='coerce') gives for a missing or
\* non-numeric entry.  No metric of the model is negative.
NaN == -1

\* Python's a <= b on floats: False when either side is NaN.
Leq(a, b) == a # NaN /\ b # NaN /\ a <= b

\* Lines 110-111 with a strict first comparison (a faulty variant).
AirWithin_strict(vals_air, rule) ==
    /\ vals_air[1] # NaN /\ vals_air[1] < rule[1] /\ Leq(vals_air[2], rule[2])
    /\ Leq(vals_air[3], rule[3]) /\ Leq(vals_air[4], rule[4])

\* Lines 110-111 and 151-152: all four air values within the rule's limits.
AirWithin(vals_air, rule) ==
    /\ Leq(vals_air[1], rule[1]) /\ Leq(vals_air[2], rule[2])
    /\ Leq(vals_air[3], rule[3]) /\ Leq(vals_air[4], rule[4])

\* Lines 119-121 with a strict lower temperature limit (a faulty variant).
WeatherPerfect_strict(vals_weather) ==
    /\ PERFECT_CONDITION.temp_min < vals_weather[1]
    /\ vals_weather[1] <= PERFECT_CONDITION.temp_max
    /\ vals_weather[2] <= PERFECT_CONDITION.cloud_max
    /\ vals_weather[3] >= PERFECT_CONDITION.visibility_min

\* Lines 118-121: temp, cloud, vis = vals_weather and the perfect-weather test.
WeatherPerfect(vals_weather) ==
    /\ PERFECT_CONDITION.temp_min <= vals_weather[1]
    /\ vals_weather[1] <= PERFECT_CONDITION.temp_max
    /\ vals_weather[2] <= PERFECT_CONDITION.cloud_max
    /\ vals_weather[3] >= PERFECT_CONDITION.visibility_min

\* Lines 126-128: the upgraded description embeds int(temp), int(cloud),
\* int(vis/1000) and the rule's own description.
PerfectDesc(vals_weather, desc) ==
    [head |-> <<vals_weather[1], vals_weather[2], vals_weather[3] \div 1000>>,
     base |-> desc]

\* Line 114: the rule's description as it stands.
PlainDesc(desc) == [head |-> <<>>, base |-> desc]

\* Lines 105-131 scanning from the last rule to the first (a faulty variant).
RECURSIVE ActiveScanBack(_, _, _)
ActiveScanBack(i, vals_air, vals_weather) ==
    IF i < 0
    THEN [match_act |-> <<>>, idx |-> Len(LEVELS_ACTIVE) - 1, is_perfect |-> FALSE]
    ELSE LET rule == LEVELS_ACTIVE[i + 1] IN
         IF AirWithin(vals_air, rule)
         THEN [match_act |-> <<rule[5], PlainDesc(rule[6])>>, idx |-> i,
               is_perfect |-> FALSE]
         ELSE ActiveScanBack(i - 1, vals_air, vals_weather)

ActiveLoop_lastfirst(i, vals_air, vals_weather) ==
    ActiveScanBack(Len(LEVELS_ACTIVE) - 1, vals_air, vals_weather)

\* Lines 105-131: the scan of LEVELS_ACTIVE from rule i (0-based, as idx of
\* enumerate) on; the first rule that matches decides and breaks.  The result
\* holds the locals the loop leaves behind: match_act, idx and is_perfect.
RECURSIVE ActiveLoop(_, _, _)
ActiveLoop(i, vals_air, vals_weather) ==
    IF i >= Len(LEVELS_ACTIVE)
    THEN [match_act |-> <<>>, idx |-> Len(LEVELS_ACTIVE) - 1, is_perfect |-> FALSE]
    ELSE LET rule == LEVELS_ACTIVE[i + 1] IN
         IF AirWithin(vals_air, rule)
         THEN IF i = 0 /\ WeatherPerfect(vals_weather)
              THEN [match_act |-> <<PERFECT_TITLE, PerfectDesc(vals_weather, rule[6])>>,
                    idx |-> i, is_perfect |-> TRUE]
              ELSE [match_act |-> <<rule[5], PlainDesc(rule[6])>>,
                    idx |-> i, is_perfect |-> FALSE]
         ELSE ActiveLoop(i + 1, vals_air, vals_weather)

\* Line 147 without the guard (a faulty variant): the warning rule is always tried.
IsActiveZone_never(vals_air) == FALSE

\* Line 147: is_active_zone, with the limits written out as literals.
IsActiveZone(vals_air) ==
    /\ Leq(vals_air[1], 75) /\ Leq(vals_air[2], 100)
    /\ Leq(vals_air[3], 80) /\ Leq(vals_air[4], 160)

\* Lines 150-154: the scan of LEVELS_WARNING from rule i on.
RECURSIVE WarningLoop(_, _)
WarningLoop(i, vals_air) ==
    IF i >= Len(LEVELS_WARNING)
    THEN <<>>
    ELSE LET rule == LEVELS_WARNING[i + 1] IN
         IF AirWithin(vals_air, rule)
         THEN <<rule[5], rule[6]>>
         ELSE WarningLoop(i + 1, vals_air)

\* Lines 146-154: match_warn.
MatchWarn(vals_air) ==
    IF ~IsActiveZone(vals_air) THEN WarningLoop(0, vals_air) ELSE <<>>

---------------------------------------------------------------------------
(* Segmentation *)

\* Lines 191-197 with a zero-length first hour (a faulty variant).
create_event_dict_noend(time, level_info, vals) ==
    [start |-> time, end |-> time, title |-> level_info[1],
     desc |-> [info |-> level_info[2], vals |-> vals]]

\* Lines 191-197: the interval opened by one hour; desc embeds int() of the
\* four air values of that hour.
create_event_dict(time, level_info, vals) ==
    [start |-> time, end |-> time + 1, title |-> level_info[1],
     desc |-> [info |-> level_info[2], vals |-> vals]]

\* Lines 134-143 without the title test (a faulty variant): an hour never extends.
MergeActive_nomerge(curr, events, match, current_time, vals_air) ==
    IF curr # <<>>
    THEN [curr |-> IF match # <<>>
                   THEN <<create_event_dict(current_time, match, vals_air)>>
                   ELSE <<>>,
          events |-> Append(events, curr[1])]
    ELSE [curr |-> IF match # <<>>
                   THEN <<create_event_dict(current_time, match, vals_air)>>
                   ELSE <<>>,
          events |-> events]

\* Lines 134-143 with the title test of line 136 left out (a faulty variant):
\* any labelled hour extends the open interval.
MergeActive_anytitle(curr, events, match, current_time, vals_air) ==
    IF curr # <<>>
    THEN IF match # <<>>
         THEN [curr |-> <<[curr[1] EXCEPT !.end = current_time + 1]>>,
               events |-> events]
         ELSE [curr |-> <<>>, events |-> Append(events, curr[1])]
    ELSE [curr |-> IF match # <<>>
                   THEN <<create_event_dict(current_time, match, vals_air)>>
                   ELSE <<>>,
          events |-> events]

\* Lines 134-143 with the description rewritten at line 137 (a faulty
\* variant): the extending hour's values replace those of the opening hour.
MergeActive_newdesc(curr, events, match, current_time, vals_air) ==
    IF curr # <<>>
    THEN IF match # <<>> /\ curr[1].title = match[1]
         THEN [curr |-> <<[curr[1] EXCEPT
                              !.end = current_time + 1,
                              !.desc = [info |-> match[2], vals |-> vals_air]]>>,
               events |-> events]
         ELSE [curr |-> IF match # <<>>
                        THEN <<create_event_dict(current_time, match, vals_air)>>
                        ELSE <<>>,
               events |-> Append(events, curr[1])]
    ELSE [curr |-> IF match # <<>>
                   THEN <<create_event_dict(current_time, match, vals_air)>>
                   ELSE <<>>,
          events |-> events]

\* Lines 134-143: the merge of one unsuppressed hour into the active stream;
\* the result is the new curr_active and events_active.
MergeActive(curr, events, match, current_time, vals_air) ==
    IF curr # <<>>
    THEN IF match # <<>> /\ curr[1].title = match[1]
         THEN [curr |-> <<[curr[1] EXCEPT !.end = current_time + 1]>>,
               events |-> events]
         ELSE [curr |-> IF match # <<>>
                        THEN <<create_event_dict(current_time, match, vals_air)>>
                        ELSE <<>>,
               events |-> Append(events, curr[1])]
    ELSE [curr |-> IF match # <<>>
                   THEN <<create_event_dict(current_time, match, vals_air)>>
                   ELSE <<>>,
          events |-> events]

\* Lines 156-164 with the hour added at line 158 forgotten (a faulty variant).
MergeWarning_shortend(curr, events, match, current_time, vals_air) ==
    IF curr # <<>>
    THEN IF match # <<>> /\ curr[1].title = match[1]
         THEN [curr |-> <<[curr[1] EXCEPT !.end = current_time]>>,
               events |-> events]
         ELSE [curr |-> IF match # <<>>
                        THEN <<create_event_dict(current_time, match, vals_air)>>
                        ELSE <<>>,
               events |-> Append(events, curr[1])]
    ELSE [curr |-> IF match # <<>>
                   THEN <<create_event_dict(current_time, match, vals_air)>>
                   ELSE <<>>,
          events |-> events]

\* Lines 156-164: the same merge for the warning stream.
MergeWarning(curr, events, match, current_time, vals_air) ==
    IF curr # <<>>
    THEN IF match # <<>> /\ curr[1].title = match[1]
         THEN [curr |-> <<[curr[1] EXCEPT !.end = current_time + 1]>>,
               events |-> events]
         ELSE [curr |-> IF match # <<>>
                        THEN <<create_event_dict(current_time, match, vals_air)>>
                        ELSE <<>>,
               events |-> Append(events, curr[1])]
    ELSE [curr |-> IF match # <<>>
                   THEN <<create_event_dict(current_time, match, vals_air)>>
                   ELSE <<>>,
          events |-> events]

\* Lines 100, 101, 166, 167 inserting at the head of the list (a faulty
\* variant).
Flush_prepend(curr, events) == IF curr # <<>> THEN <<curr[1]>> \o events ELSE events

\* Lines 100, 101, 166, 167: "if curr: events.append(curr)".
Flush(curr, events) == IF curr # <<>> THEN Append(events, curr[1]) ELSE events

\* Lines 181-188: the calendar event of an interval; its name carries the
\* start and end rendered as %H:%M (the hour of day) and the title.
MkEvent(e_data) ==
    [name |-> <<Hour(e_data.start), Hour(e_data.end), e_data.title>>,
     begin |-> e_data.start, end |-> e_data.end, description |-> e_data.desc]

\* Line 180 with a strict comparison (a faulty variant).
KeepEvent_strict(e_data) == (e_data.end - e_data.start) > MIN_DURATION_HOURS

\* Lines 176-180: duration in hours and the test against the minimum.
KeepEvent(e_data) == (e_data.end - e_data.start) >= MIN_DURATION_HOURS

\* Lines 174-189: cal.events (a set) after every interval of events that is
\* long enough was added to cal.
process_events_to_calendar(cal, events) ==
    cal \cup {MkEvent(events[i]) : i \in {j \in 1..Len(events) : KeepEvent(events[j])}}

---------------------------------------------------------------------------
(* Inputs: the data frames get_combined_data can return *)

\* Observations of each kind: level 1 with perfect weather (all at the limits),
\* level 1 in the cold, level 2 in fine weather, the warning level, and an hour
\* beyond every limit (PM2.5 = 200).
PerfectObs == [air |-> <<35, 50, 40, 100>>, weather |-> <<10, 50, 10000>>]
PristineObs == [air |-> <<35, 50, 40, 100>>, weather |-> <<9, 50, 10000>>]
AcceptableObs == [air |-> <<36, 50, 40, 100>>, weather |-> <<20, 0, 20000>>]
WarningObs == [air |-> <<76, 100, 80, 160>>, weather |-> <<20, 0, 20000>>]
ToxicObs == [air |-> <<200, 150, 120, 200>>, weather |-> <<20, 0, 20000>>]
\* An hour whose pm2_5 is missing: 'pm2_5' is not among cols (line 77), so
\* neither to_numeric nor dropna looks at it.
NanObs == [air |-> <<NaN, 50, 40, 100>>, weather |-> <<20, 0, 20000>>]
\* An hour whose ozone is missing.
MissingObs == [air |-> <<35, 50, 40, NaN>>, weather |-> <<20, 0, 20000>>]

SampleObs == {PerfectObs, PristineObs, AcceptableObs, WarningObs, ToxicObs}

\* Lines 51 and 62: the columns the two requests ask for, and 'time'.
RequestedCols ==
    {"time", "pm2_5", "pm10", "nitrogen_dioxide", "ozone",
     "temperature_2m", "cloud_cover", "visibility"}

\* Line 77: cols, the columns that are cleaned.
cols ==
    {"pm25", "pm10", "nitrogen_dioxide", "ozone",
     "temperature_2m", "cloud_cover", "visibility"}

\* The columns a merged frame can have: those requested, or those and a
\* column named 'pm25' besides.
ColumnSets == {RequestedCols, RequestedCols \cup {"pm25"}}

Times == FirstTime .. (FirstTime + Horizon - 1)

\* The merged frame of line 74, one row for each hour of Times in
\* chronological order.  The hours of T hold a value in every column of cols
\* (obs gives the observation of each unsuppressed hour of T); the other hours
\* miss one.  The values of a row of the night block are never read past line
\* 96, so one observation stands for them all.  A frame with the column
\* 'pm25' holds a number there.
RawFrame(T, obs, cs) ==
    [i \in 1..Horizon |->
        LET t == FirstTime + i - 1
            o == IF t \notin T THEN MissingObs
                 ELSE IF IsSuppressed(t) THEN PerfectObs ELSE obs[t]
            r == MkRow(t, o.air, o.weather)
        IN  IF "pm25" \in cs THEN r @@ [pm25 |-> 35] ELSE r]

\* Line 80: a row dropna keeps: no NaN in a column of cols.
RowComplete(row) == \A c \in cols : row[c] # NaN

\* Lines 78-80: to_numeric leaves the numbers of cols as they are and turns
\* the rest into NaN; dropna removes the rows with a NaN in a column of cols.
DropNa(d) == SelectSeq(d, RowComplete)

\* The sets of hours that hold a value in every column of cols: at most
\* MaxRows rows are left by dropna (line 80).
HourSets == {T \in SUBSET Times : Cardinality(T) <= MaxRows}

\* The observations of the unsuppressed hours of T: any of SampleObs for each
\* hour; a frame of one row may also hold the hour with a missing pm2_5
\* (in the loop it is one more hour that matches no rule).
Observations(T) ==
    LET U == {t \in T : ~IsSuppressed(t)} IN
    [U -> SampleObs]
    \cup (IF Cardinality(T) = 1 /\ U = T THEN {[t \in T |-> NanObs]} ELSE {})

\* Every value at and just above a limit of the tables, for each air metric.
AirLimits(k) ==
    LET L == {LEVELS_ACTIVE[i][k] : i \in 1..Len(LEVELS_ACTIVE)}
             \cup {LEVELS_WARNING[i][k] : i \in 1..Len(LEVELS_WARNING)}
    IN  L \cup {b + 1 : b \in L}

AirSpace == AirLimits(1) \X AirLimits(2) \X AirLimits(3) \X AirLimits(4)

\* Every value at and just beyond a limit of PERFECT_CONDITION.
WeatherSpace ==
    {PERFECT_CONDITION.temp_min - 1, PERFECT_CONDITION.temp_min,
     PERFECT_CONDITION.temp_max, PERFECT_CONDITION.temp_max + 1}
    \X {PERFECT_CONDITION.cloud_max, PERFECT_CONDITION.cloud_max + 1}
    \X {PERFECT_CONDITION.visibility_min - 1, PERFECT_CONDITION.visibility_min}

\* Two-row data frames for the classification of one hour: an hour that opens
\* an interval in one of the streams, then an hour with any combination of
\* values (or an hour of the night block).
ClassifyDFs ==
    LET openers == {MkRow(BLOCK_END_HOUR, o.air, o.weather) :
                      o \in {AcceptableObs, WarningObs}}
    IN  {<<o, MkRow(BLOCK_END_HOUR + 1, a, w)>> :
            o \in openers, a \in AirSpace, w \in WeatherSpace}
        \cup {<<o, MkRow(24 + BLOCK_START_HOUR, PerfectObs.air, PerfectObs.weather)>> :
            o \in openers}

---------------------------------------------------------------------------
(* The program *)

NoFiles == [active |-> <<>>, warning |-> <<>>]

\* The state at the try of line 201, and the locals of generate_calendars as
\* lines 85-89 set them.
Init ==
    /\ pc = "fetch_air"
    /\ acquisition = "pending"
    /\ columns = {}
    /\ df = <<>>
    /\ index = 0
    /\ match_act = <<>> /\ match_warn = <<>> /\ idx = 0 /\ is_perfect = FALSE
    /\ curr_active = <<>> /\ curr_warning = <<>>
    /\ events_active = <<>> /\ events_warning = <<>>
    /\ cal_active = {} /\ cal_warning = {}
    /\ files = NoFiles

core == <<df, index, match_act, match_warn, idx, is_perfect,
          curr_active, curr_warning, events_active, events_warning,
          cal_active, cal_warning>>

\* Lines 54-56 with the failure swallowed (a faulty variant): the run goes on with an
\* empty data frame.
FetchAirFail_swallow ==
    /\ pc = "fetch_air"
    /\ pc' = "loop"
    /\ acquisition' = "failed"
    /\ UNCHANGED <<columns, core, files>>

\* Lines 54-56: the air request raises (requests.get, raise_for_status or
\* the ['hourly'] lookup); the exception leaves get_combined_data.
FetchAirFail ==
    /\ pc = "fetch_air"
    /\ pc' = "except"
    /\ acquisition' = "failed"
    /\ UNCHANGED <<columns, core, files>>

\* Lines 54-56: the air request succeeds.
FetchAirOk ==
    /\ pc = "fetch_air"
    /\ pc' = "fetch_weather"
    /\ UNCHANGED <<acquisition, columns, core, files>>

\* Lines 65-67: the weather request raises.
FetchWeatherFail ==
    /\ pc = "fetch_weather"
    /\ pc' = "except"
    /\ acquisition' = "failed"
    /\ UNCHANGED <<columns, core, files>>

\* Lines 65-67: the weather request succeeds.
FetchWeatherOk ==
    /\ pc = "fetch_weather"
    /\ pc' = "merge"
    /\ UNCHANGED <<acquisition, columns, core, files>>

\* Lines 71-72: a response without its 'time' column: the lookup raises
\* KeyError.
MergeFail ==
    /\ pc = "merge"
    /\ pc' = "except"
    /\ acquisition' = "failed"
    /\ UNCHANGED <<columns, core, files>>

\* Lines 71-74: the two frames are merged on 'time'.  The content of the
\* responses is the input of the run: the columns, and for each hour the
\* values or what is missing.
Merge ==
    /\ pc = "merge"
    /\ \E cs \in ColumnSets : \E T \in HourSets :
          \E obs \in Observations(T) :
              /\ columns' = cs
              /\ df' = RawFrame(T, obs, cs)
    /\ pc' = "clean"
    /\ UNCHANGED <<acquisition, index, match_act, match_warn, idx, is_perfect,
                   curr_active, curr_warning, events_active, events_warning,
                   cal_active, cal_warning, files>>

\* Lines 77-79: df[col] for a name of cols that is no column of the frame
\* raises KeyError ('pm25' when the frame holds the requested 'pm2_5' only).
\* The frame is a local of get_combined_data and is lost with the exception.
CleanFail ==
    /\ pc = "clean"
    /\ ~(cols \subseteq columns)
    /\ pc' = "except"
    /\ acquisition' = "failed"
    /\ columns' = {}
    /\ df' = <<>>
    /\ UNCHANGED <<index, match_act, match_warn, idx, is_perfect,
                   curr_active, curr_warning, events_active, events_warning,
                   cal_active, cal_warning, files>>

\* Lines 77-82 and 202-203: every name of cols is a column; the rows with a
\* missing value in one of them are dropped, the frame is returned and
\* generate_calendars is entered.
CleanOk ==
    /\ pc = "clean"
    /\ cols \subseteq columns
    /\ df' = DropNa(df)
    /\ pc' = "loop"
    /\ acquisition' = "ok"
    /\ UNCHANGED <<columns, index, match_act, match_warn, idx, is_perfect,
                   curr_active, curr_warning, events_active, events_warning,
                   cal_active, cal_warning, files>>

\* Lines 91-102 with lines 100-101 left out (a faulty variant): the row of the
\* night block is skipped and the open intervals stay open.
LoopSuppressed_keep ==
    /\ pc = "loop"
    /\ index < Len(df)
    /\ IsSuppressed(df[index + 1].time)
    /\ index' = index + 1
    /\ UNCHANGED <<pc, acquisition, columns, df, match_act, match_warn, idx, is_perfect,
                   curr_active, curr_warning, events_active, events_warning,
                   cal_active, cal_warning, files>>

\* Lines 91-102: the next row lies in the night block; both open intervals
\* are emitted and the row is skipped.
LoopSuppressed ==
    /\ pc = "loop"
    /\ index < Len(df)
    /\ IsSuppressed(df[index + 1].time)
    /\ index' = index + 1
    /\ events_active' = Flush(curr_active, events_active)
    /\ curr_active' = <<>>
    /\ events_warning' = Flush(curr_warning, events_warning)
    /\ curr_warning' = <<>>
    /\ UNCHANGED <<pc, acquisition, columns, df, match_act, match_warn, idx, is_perfect,
                   cal_active, cal_warning, files>>

\* Lines 91-96 and 104-164: the next row is classified for both calendars
\* and merged into both streams.
LoopClassify ==
    /\ pc = "loop"
    /\ index < Len(df)
    /\ ~IsSuppressed(df[index + 1].time)
    /\ LET row == df[index + 1]
           current_time == row.time
           vals_air == ValsAir(row)
           vals_weather == ValsWeather(row)
           act == ActiveLoop(0, vals_air, vals_weather)
           warn == MatchWarn(vals_air)
           ma == MergeActive(curr_active, events_active, act.match_act,
                             current_time, vals_air)
           mw == MergeWarning(curr_warning, events_warning, warn,
                              current_time, vals_air)
       IN  /\ match_act' = act.match_act
           /\ idx' = act.idx
           /\ is_perfect' = act.is_perfect
           /\ match_warn' = warn
           /\ curr_active' = ma.curr
           /\ events_active' = ma.events
           /\ curr_warning' = mw.curr
           /\ events_warning' = mw.events
    /\ index' = index + 1
    /\ UNCHANGED <<pc, acquisition, columns, df, cal_active, cal_warning, files>>

\* Lines 166-172 reading the last row after the loop (a faulty variant): with
\* no row at all the read raises.
LoopEnd_needsrow ==
    /\ pc = "loop"
    /\ index = Len(df)
    /\ IF Len(df) = 0
       THEN /\ pc' = "except"
            /\ UNCHANGED <<events_active, events_warning, cal_active, cal_warning>>
       ELSE /\ events_active' = Flush(curr_active, events_active)
            /\ events_warning' = Flush(curr_warning, events_warning)
            /\ cal_active' = process_events_to_calendar(cal_active, events_active')
            /\ cal_warning' = process_events_to_calendar(cal_warning, events_warning')
            /\ pc' = "write_active"
    /\ UNCHANGED <<acquisition, columns, df, index, match_act, match_warn, idx,
                   is_perfect, curr_active, curr_warning, files>>

\* Lines 166-172 with lines 166-167 left out (a faulty variant): the intervals
\* still open at the end are not emitted.
LoopEnd_noflush ==
    /\ pc = "loop"
    /\ index = Len(df)
    /\ cal_active' = process_events_to_calendar(cal_active, events_active)
    /\ cal_warning' = process_events_to_calendar(cal_warning, events_warning)
    /\ pc' = "write_active"
    /\ UNCHANGED <<acquisition, columns, df, index, match_act, match_warn, idx, is_perfect,
                   curr_active, curr_warning, events_active, events_warning, files>>

\* Lines 166-172: the rows are exhausted; the open intervals are emitted, the
\* duration filter fills both calendars and generate_calendars returns.
LoopEnd ==
    /\ pc = "loop"
    /\ index = Len(df)
    /\ events_active' = Flush(curr_active, events_active)
    /\ events_warning' = Flush(curr_warning, events_warning)
    /\ cal_active' = process_events_to_calendar(cal_active, events_active')
    /\ cal_warning' = process_events_to_calendar(cal_warning, events_warning')
    /\ pc' = "write_active"
    /\ UNCHANGED <<acquisition, columns, df, index, match_act, match_warn, idx, is_perfect,
                   curr_active, curr_warning, files>>

\* Lines 205-207: public/active.ics is written.
WriteActive ==
    /\ pc = "write_active"
    /\ files' = [files EXCEPT !.active = <<cal_active>>]
    /\ pc' = "write_warning"
    /\ UNCHANGED <<acquisition, columns, core>>

\* Lines 209-211: public/warning.ics is written.
WriteWarning ==
    /\ pc = "write_warning"
    /\ files' = [files EXCEPT !.warning = <<cal_warning>>]
    /\ pc' = "done"
    /\ UNCHANGED <<acquisition, columns, core>>

\* Lines 213-215: the handler prints the traceback and the run ends.
Except ==
    /\ pc = "except"
    /\ pc' = "done"
    /\ UNCHANGED <<acquisition, columns, core, files>>

Next ==
    \/ FetchAirOk \/ FetchAirFail
    \/ FetchWeatherOk \/ FetchWeatherFail
    \/ Merge \/ MergeFail
    \/ CleanOk \/ CleanFail
    \/ LoopSuppressed \/ LoopClassify \/ LoopEnd
    \/ WriteActive \/ WriteWarning
    \/ Except

Spec == Init /\ [][Next]_vars

\* generate_calendars alone, on a two-row data frame whose second row takes
\* every combination of values at and around the limits.
InitClassify ==
    /\ pc = "loop"
    /\ acquisition = "ok"
    /\ columns = RequestedCols
    /\ df \in ClassifyDFs
    /\ index = 0
    /\ match_act = <<>> /\ match_warn = <<>> /\ idx = 0 /\ is_perfect = FALSE
    /\ curr_active = <<>> /\ curr_warning = <<>>
    /\ events_active = <<>> /\ events_warning = <<>>
    /\ cal_active = {} /\ cal_warning = {}
    /\ files = NoFiles

NextClassify == LoopSuppressed \/ LoopClassify \/ LoopEnd

SpecClassify == InitClassify /\ [][NextClassify]_vars

---------------------------------------------------------------------------
(* Properties *)

Titles ==
    {PERFECT_TITLE}
    \cup {LEVELS_ACTIVE[i][5] : i \in 1..Len(LEVELS_ACTIVE)}
    \cup {LEVELS_WARNING[i][5] : i \in 1..Len(LEVELS_WARNING)}

\* generate_calendars has returned.
Finished == acquisition = "ok" /\ pc \in {"write_active", "write_warning", "done"}

\* match_act, idx, is_perfect and match_warn are those of the row df[index].
Classified == index > 0 /\ ~IsSuppressed(df[index].time)

\* The rules of LEVELS_ACTIVE (1-based) whose four limits the values respect.
Matching(vals_air) ==
    {i \in 1..Len(LEVELS_ACTIVE) : \A k \in 1..4 : vals_air[k] <= LEVELS_ACTIVE[i][k]}

MinOf(S) == CHOOSE x \in S : \A y \in S : x <= y

\* C1: every interval appended to events_active or events_warning carries a
\* title (never none) and ends at least one hour after it starts.
C1_EmittedWellFormed ==
    \A events \in {events_active, events_warning} :
        \A i \in 1..Len(events) :
            /\ events[i].title \in Titles
            /\ events[i].end - events[i].start >= 1

\* Both streams have emitted an interval.
C1_Witness == events_active # <<>> /\ events_warning # <<>>

\* C2 as claimed: in each emitted list any two consecutive intervals carry
\* different titles.
C2_ConsecutiveTitlesDiffer ==
    \A events \in {events_active, events_warning} :
        \A i \in 1..(Len(events) - 1) :
            events[i].title # events[i + 1].title

\* C2 as amended: in each emitted list two consecutive intervals of which the
\* later starts at the hour the earlier ends carry different titles.
C2_TouchingTitlesDiffer ==
    \A events \in {events_active, events_warning} :
        \A i \in 1..(Len(events) - 1) :
            events[i + 1].start = events[i].end
                => events[i].title # events[i + 1].title

\* Two consecutive emitted intervals of the active stream touch.
C2_Witness ==
    \E i \in 1..(Len(events_active) - 1) :
        events_active[i + 1].start = events_active[i].end

\* The label of a row in the active stream, "" for none; an hour of the
\* night block has none.
ActLabel(row) ==
    LET m == ActiveLoop(0, ValsAir(row), ValsWeather(row)).match_act
    IN  IF IsSuppressed(row.time) \/ m = <<>> THEN "" ELSE m[1]

\* The label of a row in the warning stream.
WarnLabel(row) ==
    LET m == MatchWarn(ValsAir(row))
    IN  IF IsSuppressed(row.time) \/ m = <<>> THEN "" ELSE m[1]

\* The maximal runs of one identical label other than "" in lab, in order:
\* a run of n rows whose first row has the time t gives <<label, t, t + n>>.
RefRuns(lab, tm) ==
    LET n == Len(lab)
        Starts == {i \in 1..n : lab[i] # "" /\ (i = 1 \/ lab[i - 1] # lab[i])}
        RunEnd(i) == CHOOSE j \in i..n :
                        /\ \A k \in i..j : lab[k] = lab[i]
                        /\ (j = n \/ lab[j + 1] # lab[i])
        Nth(m) == CHOOSE i \in Starts : Cardinality({x \in Starts : x < i}) = m - 1
    IN  [m \in 1..Cardinality(Starts) |->
            <<lab[Nth(m)], tm[Nth(m)], tm[Nth(m)] + (RunEnd(Nth(m)) - Nth(m) + 1)>>]

Emitted(events) ==
    [m \in 1..Len(events) |-> <<events[m].title, events[m].start, events[m].end>>]

\* One row per hour, no hour absent.
GapFree(d) == \A i \in 1..(Len(d) - 1) : d[i + 1].time = d[i].time + 1

\* C3: for an hourly data frame without absent hours, the intervals emitted
\* for each stream are exactly the maximal runs of one label over the
\* unsuppressed hours, a run of n hours from t giving [t, t + n).
C3_EmittedAreMaximalRuns ==
    (Finished /\ GapFree(df)) =>
        LET tm == [i \in 1..Len(df) |-> df[i].time] IN
        /\ Emitted(events_active)
              = RefRuns([i \in 1..Len(df) |-> ActLabel(df[i])], tm)
        /\ Emitted(events_warning)
              = RefRuns([i \in 1..Len(df) |-> WarnLabel(df[i])], tm)

\* A run of two hours was merged and an hour of the night block ended a run.
C3_Witness ==
    /\ Finished /\ GapFree(df)
    /\ \E i \in 1..Len(events_active) :
          /\ events_active[i].end - events_active[i].start >= 2
          /\ \E j \in 1..Len(df) :
                IsSuppressed(df[j].time) /\ df[j].time = events_active[i].end
    /\ events_warning # <<>>

\* C4 as claimed: no hour of the night block lies inside the span of an
\* emitted interval.
C4_NoSuppressedHourInside ==
    \A events \in {events_active, events_warning} :
        \A i \in 1..Len(events) :
            \A t \in events[i].start..(events[i].end - 1) : ~IsSuppressed(t)

\* C5: at most one of match_act and match_warn is not none.
C5_MutualExclusion == match_act = <<>> \/ match_warn = <<>>

\* An hour was classified as warning, and so not as active.
C5_Witness == Classified /\ index = 2 /\ match_warn # <<>> /\ match_act = <<>>

\* C6: after the duration filter, an interval has an event in the calendar
\* exactly when it lasts at least MIN_DURATION_HOURS, with the start, end and
\* title it had, and the calendar holds nothing else.
C6_DurationFilter ==
    Finished =>
        \A s \in {<<events_active, cal_active>>, <<events_warning, cal_warning>>} :
            /\ \A i \in 1..Len(s[1]) :
                  (s[1][i].end - s[1][i].start >= MIN_DURATION_HOURS)
                  <=> (\E ev \in s[2] : /\ ev.begin = s[1][i].start
                                        /\ ev.end = s[1][i].end
                                        /\ ev.name[3] = s[1][i].title)
            /\ \A ev \in s[2] :
                  /\ ev.end - ev.begin >= MIN_DURATION_HOURS
                  /\ \E i \in 1..Len(s[1]) : /\ ev.begin = s[1][i].start
                                             /\ ev.end = s[1][i].end
                                             /\ ev.name[3] = s[1][i].title

\* An interval of the active stream was dropped and a later one kept.
C6_Witness ==
    /\ Finished
    /\ \E i, j \in 1..Len(events_active) :
          /\ i < j
          /\ events_active[i].end - events_active[i].start < MIN_DURATION_HOURS
          /\ events_active[j].end - events_active[j].start = MIN_DURATION_HOURS
    /\ Cardinality(cal_active) = 1

\* C7: the base active classification is the first rule of LEVELS_ACTIVE, in
\* list order, whose four limits the values respect (limits inclusive), and
\* none when no rule matches.
C7_FirstMatchingRule ==
    Classified =>
        LET M == Matching(ValsAir(df[index])) IN
        /\ (M = {}) <=> (match_act = <<>>)
        /\ M # {} =>
              /\ idx = MinOf(M) - 1
              /\ match_act[2].base = LEVELS_ACTIVE[MinOf(M)][6]
              /\ ~is_perfect => match_act[1] = LEVELS_ACTIVE[MinOf(M)][5]

\* Values equal to the limits of the first rule match both rules, and the
\* first one is taken.
C7_Witness ==
    /\ Classified
    /\ ValsAir(df[index]) = <<35, 50, 40, 100>>
    /\ Cardinality(Matching(ValsAir(df[index]))) = 2
    /\ idx = 0
    /\ ~is_perfect /\ match_act[1] = "PureAir"

\* C8: the active title is the upgraded one exactly when the first rule
\* matches and the weather is within PERFECT_CONDITION (limits inclusive);
\* otherwise it is the matched rule's own title.
C8_PerfectUpgrade ==
    Classified =>
        LET row == df[index]
            M == Matching(ValsAir(row))
            fine == /\ row.temperature_2m >= PERFECT_CONDITION.temp_min
                    /\ row.temperature_2m <= PERFECT_CONDITION.temp_max
                    /\ row.cloud_cover <= PERFECT_CONDITION.cloud_max
                    /\ row.visibility >= PERFECT_CONDITION.visibility_min
        IN  /\ (match_act # <<>> /\ match_act[1] = PERFECT_TITLE) <=> (1 \in M /\ fine)
            /\ is_perfect <=> (1 \in M /\ fine)
            /\ (M # {} /\ ~(1 \in M /\ fine))
                  => match_act[1] = LEVELS_ACTIVE[MinOf(M)][5]

\* A level-1 hour with every weather value at its limit is upgraded.
C8_Witness ==
    /\ Classified
    /\ match_act # <<>> /\ match_act[1] = PERFECT_TITLE
    /\ df[index].temperature_2m = PERFECT_CONDITION.temp_min
    /\ df[index].cloud_cover = PERFECT_CONDITION.cloud_max
    /\ df[index].visibility = PERFECT_CONDITION.visibility_min

\* C9: when an unsuppressed hour is processed, match_warn is not none exactly
\* when no active rule matches and the four values respect the warning
\* rule's limits; an hour beyond a warning limit gets none twice; and an
\* hour with none in a stream emits the stream's open interval, if any, and
\* leaves the stream idle.
C9_WarningLabel ==
    [][(index' = index + 1 /\ ~IsSuppressed(df[index + 1].time)) =>
         LET v == ValsAir(df[index + 1])
             inWarn == \A k \in 1..4 : v[k] <= LEVELS_WARNING[1][k]
         IN  /\ (match_warn' # <<>>) <=> (Matching(v) = {} /\ inWarn)
             /\ ~inWarn => (match_act' = <<>> /\ match_warn' = <<>>)
             /\ match_act' = <<>> =>
                   /\ curr_active' = <<>>
                   /\ events_active' = IF curr_active = <<>> THEN events_active
                                       ELSE Append(events_active, curr_active[1])
             /\ match_warn' = <<>> =>
                   /\ curr_warning' = <<>>
                   /\ events_warning' = IF curr_warning = <<>> THEN events_warning
                                        ELSE Append(events_warning, curr_warning[1])
      ]_vars

\* An hour beyond a warning limit has closed an open warning interval.
C9_Witness ==
    /\ Classified /\ index = 2
    /\ \E k \in 1..4 : ValsAir(df[index])[k] > LEVELS_WARNING[1][k]
    /\ match_act = <<>> /\ match_warn = <<>>
    /\ curr_warning = <<>> /\ Len(events_warning) = 1

\* C10: after a failed acquisition generate_calendars is not entered and no
\* file is written; a file is written only after a successful acquisition.
C10_NoOutputOnFailure ==
    /\ acquisition = "failed" =>
          /\ pc \in {"except", "done"}
          /\ index = 0 /\ df = <<>>
          /\ files = NoFiles
    /\ files # NoFiles => acquisition = "ok"

\* A run whose acquisition failed has ended with no file written.
C10_Witness == acquisition = "failed" /\ pc = "done" /\ files = NoFiles

\* The seven metrics generate_calendars reads (lines 95-96).
RequiredMetrics ==
    {"pm2_5", "pm10", "nitrogen_dioxide", "ozone",
     "temperature_2m", "cloud_cover", "visibility"}

AllNumeric(row) == \A c \in RequiredMetrics : row[c] # NaN

\* C11 as claimed: once both retrievals have succeeded and the frames are
\* merged, get_combined_data returns the merged rows without those that miss
\* one of the seven metrics, and every row generate_calendars reads holds a
\* number for each of the seven.
C11_CleanedRowsReachCore ==
    [][/\ pc = "clean" => (pc' = "loop" /\ df' = SelectSeq(df, AllNumeric))
       /\ (pc = "loop" /\ index' = index + 1) => AllNumeric(df[index + 1])
      ]_vars

\* C12: in each stream the emitted intervals are in chronological order and
\* do not overlap: each starts at or after the end of every earlier one.
C12_OrderedDisjoint ==
    \A events \in {events_active, events_warning} :
        \A i, j \in 1..Len(events) :
            i < j => events[j].start >= events[i].end

\* At least two intervals were emitted in each stream.
C12_Witness == Len(events_active) >= 2 /\ Len(events_warning) >= 2

\* C13: on an empty data frame generate_calendars raises nothing and leaves
\* both streams and both calendars empty.
C13_EmptyInput ==
    (acquisition = "ok" /\ df = <<>>) =>
        /\ pc # "except"
        /\ curr_active = <<>> /\ curr_warning = <<>>
        /\ events_active = <<>> /\ events_warning = <<>>
        /\ cal_active = {} /\ cal_warning = {}

\* The run on an empty data frame has ended and written two empty calendars.
C13_Witness ==
    /\ acquisition = "ok" /\ df = <<>> /\ pc = "done"
    /\ files = [active |-> <<{}>>, warning |-> <<{}>>]

\* The intervals of events, and the open one if any, none of which holds the
\* hours of two rows that have a row of the night block between them.
NoMergeAcross(curr, events) ==
    \A e \in {events[m] : m \in 1..Len(events)} \cup {curr[m] : m \in 1..Len(curr)} :
        \A j \in 1..Len(df) :
            IsSuppressed(df[j].time) =>
                ~(/\ \E i \in 1..(j - 1) : e.start <= df[i].time
                  /\ \E k \in (j + 1)..Len(df) : df[k].time < e.end)

\* C15: the step that processes a row of the night block emits each open
\* interval unchanged and leaves both streams without an open interval; and
\* no interval holds hours on both sides of such a row.
C15_SuppressedHourClosesBoth ==
    [][/\ (pc = "loop" /\ index' = index + 1 /\ IsSuppressed(df[index + 1].time)) =>
            /\ curr_active' = <<>> /\ curr_warning' = <<>>
            /\ events_active' = IF curr_active # <<>>
                                THEN Append(events_active, curr_active[1])
                                ELSE events_active
            /\ events_warning' = IF curr_warning # <<>>
                                 THEN Append(events_warning, curr_warning[1])
                                 ELSE events_warning
       /\ NoMergeAcross(curr_active, events_active)'
       /\ NoMergeAcross(curr_warning, events_warning)'
      ]_vars

\* Three rows in a row: a labelled hour, an hour of the night block, an hour
\* with the same label; the active stream emitted two intervals of that title.
C15_Witness ==
    /\ Finished
    /\ \E j \in 2..(Len(df) - 1) :
          /\ IsSuppressed(df[j].time)
          /\ ActLabel(df[j - 1]) # "" /\ ActLabel(df[j - 1]) = ActLabel(df[j + 1])
          /\ \E m \in 1..(Len(events_active) - 1) :
                /\ events_active[m].title = ActLabel(df[j - 1])
                /\ events_active[m + 1].title = ActLabel(df[j - 1])
                /\ events_active[m].end = df[j - 1].time + 1
                /\ events_active[m + 1].start = df[j + 1].time

\* The intervals of events that hold the hour t.
Holding(events, t) == {m \in 1..Len(events) : events[m].start <= t /\ t < events[m].end}

\* C16: once generate_calendars has finished, every row with a label in a
\* stream lies inside exactly one emitted interval of that stream, and that
\* interval carries the row's label.
C16_NoLabelledHourLost ==
    Finished =>
        \A i \in 1..Len(df) :
            /\ ActLabel(df[i]) # "" =>
                  /\ Cardinality(Holding(events_active, df[i].time)) = 1
                  /\ \A m \in Holding(events_active, df[i].time) :
                        events_active[m].title = ActLabel(df[i])
            /\ WarnLabel(df[i]) # "" =>
                  /\ Cardinality(Holding(events_warning, df[i].time)) = 1
                  /\ \A m \in Holding(events_warning, df[i].time) :
                        events_warning[m].title = WarnLabel(df[i])

\* The data frame ended with an interval open in the active stream, which
\* was emitted last; the warning stream emitted an interval too.
C16_Witness ==
    /\ Finished /\ Len(df) >= 2
    /\ curr_active # <<>>
    /\ events_active[Len(events_active)] = curr_active[1]
    /\ events_warning # <<>>

\* Rows i, i+1, i+2 of the data frame are three consecutive hours labelled
\* pristine, perfect, pristine, and no neighbouring row is labelled pristine.
FlipAt(i) ==
    /\ i + 2 <= Len(df)
    /\ df[i + 1].time = df[i].time + 1 /\ df[i + 2].time = df[i].time + 2
    /\ ActLabel(df[i]) = LEVELS_ACTIVE[1][5]
    /\ ActLabel(df[i + 1]) = PERFECT_TITLE
    /\ ActLabel(df[i + 2]) = LEVELS_ACTIVE[1][5]
    /\ (i > 1 => ActLabel(df[i - 1]) # LEVELS_ACTIVE[1][5])
    /\ (i + 3 <= Len(df) => ActLabel(df[i + 3]) # LEVELS_ACTIVE[1][5])

\* C17: for the hours t, t+1, t+2 labelled pristine, perfect, pristine the
\* active stream emits the three one-hour intervals [t, t+1), [t+1, t+2),
\* [t+2, t+3), and the active calendar has no event in those hours.
C17_FlipSplitsStretch ==
    Finished =>
        \A i \in 1..Len(df) :
            FlipAt(i) =>
                LET t == df[i].time IN
                /\ \E m \in 1..(Len(events_active) - 2) :
                      /\ Emitted(events_active)[m] = <<LEVELS_ACTIVE[1][5], t, t + 1>>
                      /\ Emitted(events_active)[m + 1] = <<PERFECT_TITLE, t + 1, t + 2>>
                      /\ Emitted(events_active)[m + 2] = <<LEVELS_ACTIVE[1][5], t + 2, t + 3>>
                /\ \A ev \in cal_active : ev.end <= t \/ t + 3 <= ev.begin

\* A data frame of exactly those three hours gave three intervals and an
\* empty active calendar, which was written.
C17_Witness ==
    /\ pc = "done" /\ acquisition = "ok"
    /\ Len(df) = 3 /\ FlipAt(1)
    /\ Len(events_active) = 3
    /\ files.active = <<{}>>

\* The values embedded in the description of an interval are those of the
\* row at the interval's start.
DescOfOpener(e) ==
    \E j \in 1..Len(df) : df[j].time = e.start /\ e.desc.vals = ValsAir(df[j])

\* C18: a row that carries the title of the open interval changes only the
\* interval's end, to the row's time plus one hour, and emits nothing; so the
\* description of every interval holds the values of the row that opened it.
C18_ExtensionChangesOnlyEnd ==
    [][/\ (/\ pc = "loop" /\ index' = index + 1
           /\ curr_active # <<>>
           /\ ActLabel(df[index + 1]) = curr_active[1].title) =>
              /\ curr_active' = <<[curr_active[1] EXCEPT !.end = df[index + 1].time + 1]>>
              /\ events_active' = events_active
       /\ (/\ pc = "loop" /\ index' = index + 1
           /\ curr_warning # <<>>
           /\ WarnLabel(df[index + 1]) = curr_warning[1].title) =>
              /\ curr_warning' = <<[curr_warning[1] EXCEPT !.end = df[index + 1].time + 1]>>
              /\ events_warning' = events_warning
       /\ \A e \in {events_active'[m] : m \in 1..Len(events_active')}
                   \cup {events_warning'[m] : m \in 1..Len(events_warning')}
                   \cup {curr_active'[m] : m \in 1..Len(curr_active')}
                   \cup {curr_warning'[m] : m \in 1..Len(curr_warning')} :
              DescOfOpener(e)
      ]_vars

\* An interval of two hours was emitted whose second row has other air
\* values than its first, and whose description holds those of the first.
C18_Witness ==
    /\ Finished /\ Len(df) = 2
    /\ ValsAir(df[2]) # ValsAir(df[1])
    /\ \E m \in 1..Len(events_active) :
          /\ events_active[m].start = df[1].time
          /\ events_active[m].end = df[2].time + 1
          /\ events_active[m].desc.vals = ValsAir(df[1])

\* C19 as claimed: the duration in hours of every emitted interval is the
\* number of rows merged into it, the rows whose hour it holds.
C19_DurationCountsRows ==
    \A events \in {events_active, events_warning} :
        \A m \in 1..Len(events) :
            events[m].end - events[m].start
                = Cardinality({j \in 1..Len(df) :
                                 events[m].start <= df[j].time /\ df[j].time < events[m].end})

====
